---------------------------- MODULE Spec2Model ----------------------------
(***************************************************************************)
(* A model of asyncmd's trajectory function wrappers                       *)
(* (src/asyncmd/trajectory/functionwrapper.py):                            *)
(*   - the derivation of a wrapper's id from its content and call_kwargs,  *)
(*   - the wrapper objects with their property setters and __call__,       *)
(*   - SlurmTrajectoryFunctionWrapper.get_values_for_trajectory,           *)
(*   - PyTrajectoryFunctionWrapper.get_values_for_trajectory.              *)
(* Each part has its own specification over its own variables; the         *)
(* variables of the other parts stay at their idle values.                 *)
(***************************************************************************)
EXTENDS Integers, Sequences, FiniteSets, TLC

VARIABLES
    \* ---- id derivation as a pure function (SpecDerive)
    dKind,          \* "local" | "remote": which _get_id_str is applied
    dContentA,      \* content of input A (function source / executable bytes)
    dContentB,      \* content of input B
    dKwA,           \* call_kwargs of input A, in insertion order
    dKwB,           \* call_kwargs of input B, in insertion order
    dIdA,           \* _get_id_str of input A, None before it is derived
    dIdB,           \* _get_id_str of input B, None before it is derived
    \* ---- one wrapper object and the calls made on it (SpecWrapper)
    self,           \* the wrapper's attributes, kind "none" before __init__
    raised,         \* what the latest operation raised, "none" if nothing
    applied,        \* what the latest operation did, if it was a __call__
    \* ---- SlurmTrajectoryFunctionWrapper.get_values_for_trajectory calls
    \*      of one wrapper (SpecRemote)
    slurmMaxJob,    \* capacity of _SEMAPHORES["SLURM_MAX_JOB"], 0 if it is None
    slurmAvail,     \* the semaphore's value
    loadResultsFunc,\* self.load_results_func: "None" or "custom"
    rpc,            \* per call: where the coroutine is suspended
    rtraj,          \* per call: the trajectory it was called with
    rlog,           \* per call: what the call did, in the order of the code
    rout,           \* per call: how the call ended
    job,            \* per call: the batch job submitted for the call
    nextJobId,      \* the next slurm jobid the queueing system hands out
    scripts,        \* submission script files: path -> content, NoFile
    results,        \* result files: the set of [path, ext, vals]
    \* ---- PyTrajectoryFunctionWrapper.get_values_for_trajectory calls of
    \*      one wrapper (SpecLocal)
    maxProcess,     \* capacity of _SEMAPHORES["MAX_PROCESS"]
    procAvail,      \* the semaphore's value
    localKwargs,    \* self._call_kwargs of the wrapper
    lpc,            \* per call: where the coroutine is
    worker,         \* per call: the pool thread running the callable
    llog,           \* per call: what the call did, in the order of the code
    lout,           \* per call: how the call ended
    loopBlocked,    \* the call that blocks the event loop thread, 0 if none
    lclock,         \* counts the starts and ends of callables
    lstart,         \* per call: lclock when its callable started, 0 before
    lend,           \* per call: lclock when its callable ended, 0 before
    \* ---- one TrajectoryConcatenator.concatenate call (SpecConcat)
    invert_v_for_negative_step, \* the attribute of the concatenator
    trajs,          \* the input trajectories, each the sequence of its frames
    slices,         \* one (start, stop, step) per trajectory
    overwrite,      \* the overwrite argument
    remove_double_frames,   \* the remove_double_frames argument
    struct_isfile,  \* os.path.isfile(struct_out)
    tra_out_before, \* the file at tra_out when concatenate is called
    tra_out,        \* the file at tra_out
    last_time_seen, \* the local last_time_seen, unbound before it is set
    cpc,            \* where concatenate is: "idle", "writing" or "done"
    cpos,           \* the trajectory and the position in its slice
    cread,          \* number of frames read from the input trajectories
    cout            \* how concatenate ended

deriveVars == <<dKind, dContentA, dContentB, dKwA, dKwB, dIdA, dIdB>>

wrapperVars == <<self, raised, applied>>

remoteVars ==
    <<slurmMaxJob, slurmAvail, loadResultsFunc, rpc, rtraj, rlog, rout, job,
      nextJobId, scripts, results>>

localVars ==
    <<maxProcess, procAvail, localKwargs, lpc, worker, llog, lout,
      loopBlocked, lclock, lstart, lend>>

concatVars ==
    <<invert_v_for_negative_step, trajs, slices, overwrite,
      remove_double_frames, struct_isfile, tra_out_before, tra_out,
      last_time_seen, cpc, cpos, cread, cout>>

vars == <<deriveVars, wrapperVars, remoteVars, localVars, concatVars>>

---------------------------------------------------------------------------
(* Python values.  A value is a tuple <<type, printed form>>; None is the  *)
(* one value of NoneType.                                                  *)

None == <<"NoneType">>

PyInt(t) == <<"int", t>>

PyStr(t) == <<"str", t>>

\* str(v): the printed form of a value. The type is lost: str(1) and
\* str("1") are the same text, str(None) is the text "None".
Str(v) == IF v = None THEN "None" ELSE v[2]

\* text.encode('utf-8'): the bytes of a text (all texts here are ASCII).
EncodeUtf8(text) == <<"bytes", text>>

\* Largest number of entries of a call_kwargs dict.
MaxKwargs == 2

\* Keys and values that call_kwargs dicts are built from.
KwKeys == {PyStr("a"), PyStr("1"), PyStr("b")}

KwValues == {PyInt("1"), PyStr("1"), PyStr("a")}

\* A dict is the sequence of its (key, value) items in insertion order, the
\* keys pairwise different.
IsDict(d) == \A i, j \in 1..Len(d) : d[i][1] = d[j][1] => i = j

Dicts ==
    { d \in UNION { [1..n -> KwKeys \X KwValues] : n \in 0..MaxKwargs } : IsDict(d) }

\* The (key, value) pairs a dict holds: two dicts are equal as mappings
\* exactly if these sets are equal.
Items(d) == { d[i] : i \in 1..Len(d) }

DictKeys(d) == { d[i][1] : i \in 1..Len(d) }

\* Function sources that inspect.getsource returns, and the bytes of the
\* executable files.
Sources == {"def f", "def g"}

ExeBytes == {EncodeUtf8("#!exe A"), EncodeUtf8("#!exe B")}

\* Every byte string a digest is taken of in this model, in a fixed order.
AllBytes ==
    <<EncodeUtf8("1"), EncodeUtf8("a"), EncodeUtf8("b"), EncodeUtf8("None"),
      EncodeUtf8("def f"), EncodeUtf8("def g"),
      EncodeUtf8("#!exe A"), EncodeUtf8("#!exe B")>>

\* int(hashlib.blake2b(data).hexdigest(), 16): a number per byte string,
\* different for different byte strings. The numbers are powers of a base
\* larger than the number of summands of an id, so that two sums are equal
\* only if they add up the same digests (no collisions by chance).
DigestBase == 2 * (MaxKwargs + 1) + 2

Blake2bInt(data) ==
    DigestBase ^ ((CHOOSE i \in 1..Len(AllBytes) : AllBytes[i] = data) - 1)

\* str(id): the decimal text of the sum, used as dict key.
IdStr(n) == <<"str", n>>

\* An order dependent combination of the digests (not what the code does).
RECURSIVE KwargsDigestChained(_)
KwargsDigestChained(d) ==
    IF d = <<>> THEN 0
    ELSE LET k == d[Len(d)][1]
             v == d[Len(d)][2]
         IN  2 * KwargsDigestChained(SubSeq(d, 1, Len(d) - 1))
             + Blake2bInt(EncodeUtf8(Str(v)))
             + Blake2bInt(EncodeUtf8(Str(k)))

\* The loop of _get_id_str over call_kwargs.items(): id += digest of str(v),
\* id += digest of str(k), item after item.
RECURSIVE KwargsDigestSum(_)
KwargsDigestSum(d) ==
    IF d = <<>> THEN 0
    ELSE LET k == d[Len(d)][1]
             v == d[Len(d)][2]
         IN  KwargsDigestSum(SubSeq(d, 1, Len(d) - 1))
             + Blake2bInt(EncodeUtf8(Str(v)))
             + Blake2bInt(EncodeUtf8(Str(k)))

\* PyTrajectoryFunctionWrapper._get_id_str: func_src is a source text as a
\* str value, or None.
PyGetIdStr(func_src, call_kwargs) ==
    IdStr(KwargsDigestSum(call_kwargs) + Blake2bInt(EncodeUtf8(Str(func_src))))

\* SlurmTrajectoryFunctionWrapper._get_id_str: data are the bytes read from
\* the executable file.
SlurmGetIdStr(data, call_kwargs) ==
    IdStr(KwargsDigestSum(call_kwargs) + Blake2bInt(data))


---------------------------------------------------------------------------
(* The wrapper object: TrajectoryFunctionWrapper and its two subclasses.   *)

\* Callables a local wrapper is given. inspect.getsource returns the source
\* text (err "none"), raises OSError (no source can be retrieved) or raises
\* TypeError (a builtin).
Functions ==
    { [name |-> "f", src |-> "def f", err |-> "none"],
      [name |-> "g", src |-> "def g", err |-> "none"],
      [name |-> "h", src |-> "", err |-> "OSError"],
      [name |-> "len", src |-> "", err |-> "TypeError"] }

\* self._func = None: no callable yet.
NoFunction == [name |-> "None", src |-> "", err |-> "none"]

\* Executables a remote wrapper is given: the path that
\* ensure_executable_available returns, or "" if it raises.
ExePaths == {"exeA", "exeA2", "exeB", "nonexistent"}

EnsureExecutableAvailable(val) == IF val = "nonexistent" THEN "" ELSE val

\* open(path, "rb").read() of an executable: exeA and exeA2 hold the same
\* bytes.
ReadExecutable(path) ==
    IF path = "exeB" THEN EncodeUtf8("#!exe B") ELSE EncodeUtf8("#!exe A")

\* What is assigned to call_kwargs: a dict, or something that is no dict.
PyDict(d) == <<"dict", d>>

KwargsInputs == { PyDict(d) : d \in Dicts } \cup {None, PyStr("a")}

IsInstanceDict(value) == value[1] = "dict"

\* The attributes before __init__ has run (executable "" stands for None).
NoWrapper ==
    [kind |-> "none", id |-> None, call_kwargs |-> <<>>, func |-> NoFunction,
     func_src |-> None, executable |-> "", slurm_jobname |-> None]

\* self._get_id_str() of either subclass.
GetIdStr(obj) ==
    IF obj.kind = "local" THEN PyGetIdStr(obj.func_src, obj.call_kwargs)
    ELSE SlurmGetIdStr(ReadExecutable(obj.executable), obj.call_kwargs)

\* An operation's result: the attributes after it and what it raised.
Result(obj, exc) == [obj |-> obj, raised |-> exc]

\* A setter that drops the stored kwargs and the id when it refuses a value
\* (not what the code does).
CallKwargsSetterClears(obj, value) ==
    IF ~IsInstanceDict(value)
    THEN Result([obj EXCEPT !.call_kwargs = <<>>, !.id = None], "TypeError")
    ELSE LET stored == [obj EXCEPT !.call_kwargs = value[2]]
         IN  Result([stored EXCEPT !.id = GetIdStr(stored)], "none")

\* TrajectoryFunctionWrapper.call_kwargs (setter).
CallKwargsSetter(obj, value) ==
    IF ~IsInstanceDict(value) THEN Result(obj, "TypeError")
    ELSE LET stored == [obj EXCEPT !.call_kwargs = value[2]]
         IN  Result([stored EXCEPT !.id = GetIdStr(stored)], "none")

\* PyTrajectoryFunctionWrapper.function (setter): the finally clause sets
\* _func whatever getsource did.
FunctionSetter(obj, value) ==
    CASE value.err = "OSError" ->
            Result([obj EXCEPT !.func_src = None, !.id = None, !.func = value],
                   "none")
      [] value.err = "TypeError" ->
            Result([obj EXCEPT !.func = value], "TypeError")
      [] OTHER ->
            LET stored == [obj EXCEPT !.func_src = PyStr(value.src)]
            IN  Result([stored EXCEPT !.id = GetIdStr(stored), !.func = value],
                       "none")

\* A setter that stores the executable and keeps the id it had (not what
\* the code does).
ExecutableSetterKeepsId(obj, val) ==
    LET exe == EnsureExecutableAvailable(val)
    IN  IF exe = "" THEN Result(obj, "ValueError")
        ELSE Result([obj EXCEPT !.executable = exe,
                                !.id = IF obj.id = None
                                       THEN GetIdStr([obj EXCEPT !.executable = exe])
                                       ELSE obj.id],
                    "none")

\* SlurmTrajectoryFunctionWrapper.executable (setter).
ExecutableSetter(obj, val) ==
    LET exe == EnsureExecutableAvailable(val)
    IN  IF exe = "" THEN Result(obj, "ValueError")
        ELSE LET stored == [obj EXCEPT !.executable = exe]
             IN  Result([stored EXCEPT !.id = GetIdStr(stored)], "none")

\* SlurmTrajectoryFunctionWrapper.slurm_jobname (getter).
SlurmJobname(obj) ==
    IF obj.slurm_jobname = None THEN <<"CVfunc_id_", obj.id>>
    ELSE obj.slurm_jobname

\* PyTrajectoryFunctionWrapper.__init__(function, call_kwargs).
PyInit(function, call_kwargs) ==
    LET base == [NoWrapper EXCEPT !.kind = "local"]
        r1 == FunctionSetter(base, function)
        r2 == CallKwargsSetter(r1.obj, call_kwargs)
    IN  IF r1.raised # "none" THEN Result(NoWrapper, r1.raised)
        ELSE IF r2.raised # "none" THEN Result(NoWrapper, r2.raised)
        ELSE r2

\* SlurmTrajectoryFunctionWrapper.__init__(executable, sbatch_script,
\* call_kwargs).
SlurmInit(executable, call_kwargs) ==
    LET base == [NoWrapper EXCEPT !.kind = "remote"]
        r1 == ExecutableSetter(base, executable)
        r2 == CallKwargsSetter(r1.obj, call_kwargs)
    IN  IF r1.raised # "none" THEN Result(NoWrapper, r1.raised)
        ELSE IF r2.raised # "none" THEN Result(NoWrapper, r2.raised)
        ELSE r2

\* What a __call__ did. outcome is "delegated" (value._apply_wrapped_func
\* was awaited with passed_id and the wrapper passed_self), "direct" (the
\* wrapped callable was run by __call__ itself) or "TypeError".
NotApplied ==
    [outcome |-> "none", on_trajectory |-> FALSE, self_id |-> None,
     passed_id |-> None, passed_self |-> NoWrapper]

\* TrajectoryFunctionWrapper.__call__, which the remote wrapper inherits.
BaseCall(obj, is_trajectory) ==
    IF is_trajectory /\ obj.id # None
    THEN [outcome |-> "delegated", on_trajectory |-> is_trajectory,
          self_id |-> obj.id, passed_id |-> obj.id, passed_self |-> obj]
    ELSE [outcome |-> "TypeError", on_trajectory |-> is_trajectory,
          self_id |-> obj.id, passed_id |-> None, passed_self |-> NoWrapper]

\* PyTrajectoryFunctionWrapper.__call__: without id (or without trajectory)
\* it runs self._func(value, **self._call_kwargs) itself.
PyCall(obj, is_trajectory) ==
    IF is_trajectory /\ obj.id # None
    THEN [outcome |-> "delegated", on_trajectory |-> is_trajectory,
          self_id |-> obj.id, passed_id |-> obj.id, passed_self |-> obj]
    ELSE [outcome |-> "direct", on_trajectory |-> is_trajectory,
          self_id |-> obj.id, passed_id |-> None, passed_self |-> NoWrapper]

WrapperIdle ==
    /\ self = NoWrapper
    /\ raised = "none"
    /\ applied = NotApplied


---------------------------------------------------------------------------
(* SlurmTrajectoryFunctionWrapper.get_values_for_trajectory: state and     *)
(* helpers.                                                                *)

\* Number of concurrent get_values_for_trajectory calls.
NumCalls == 2

Calls == 1..NumCalls

\* Largest capacity of the SLURM_MAX_JOB semaphore.
MaxSlurmJobs == 2

\* hash_part = str(traj.trajectory_hash)[:5]
HashChars == 5

\* Trajectories: the name of trajectory_files[0] and the digits of
\* str(trajectory_hash). The first three share their first file; the first
\* two also share the first five digits of their hash.
Trajs ==
    { [name |-> "a.trr", hash |-> <<1, 2, 3, 4, 5, 6>>],
      [name |-> "a.trr", hash |-> <<1, 2, 3, 4, 5, 7>>],
      [name |-> "a.trr", hash |-> <<9, 2, 3, 4, 5, 6>>],
      [name |-> "b.trr", hash |-> <<7, 2, 3, 4, 5, 6>>] }

NoTraj == [name |-> "", hash |-> <<>>]

\* The id of the wrapper whose calls are modelled: executable exeA, no
\* call_kwargs.
RemoteSelfId == SlurmGetIdStr(ReadExecutable("exeA"), <<>>)

HashPart(traj) == SubSeq(traj.hash, 1, HashChars)

\* result_file: tra_name, hash_part and the id, in tra_dir.
ResultFile(traj) == <<traj.name, HashPart(traj), "_CVfunc_id_", RemoteSelfId>>

\* sbatch_fname: tra_name and self.slurm_jobname (the default jobname), in
\* tra_dir.
SbatchFname(traj) == <<traj.name, "_", "CVfunc_id_", RemoteSelfId, ".slurm">>

ScriptPaths == { SbatchFname(t) : t \in Trajs }

\* No file at a path.
NoFile == NoTraj

\* The array an executable computes for a trajectory.
ValuesOf(traj) == <<"values", traj>>

NoValues == <<"values", NoTraj>>

\* bytes.decode() of what a job has written to stdout or stderr.
Decode(bytes) == bytes[2]

\* How a job can end: the return code, the bytes on stdout and stderr, and
\* where the executable has left its result (at result_file + ".npy", at
\* result_file itself, or nowhere).
JobEndings ==
    { [returncode |-> 0, stdout |-> EncodeUtf8("done"),
       stderr |-> EncodeUtf8(""), ext |-> e] : e \in {".npy", "", "nothing"} }
    \cup
    { [returncode |-> 7, stdout |-> EncodeUtf8(""),
       stderr |-> EncodeUtf8("boom"), ext |-> e] : e \in {".npy", "nothing"} }
    \cup
    { [returncode |-> 1, stdout |-> EncodeUtf8("partial"),
       stderr |-> EncodeUtf8("killed"), ext |-> "nothing"] }

NoJob ==
    [state |-> "none", jobid |-> 0, returncode |-> 0,
     stdout |-> EncodeUtf8(""), stderr |-> EncodeUtf8(""), script |-> NoTraj]

\* How a call ended: kind is "none" (running), "returned" or "raised".
NoOutcome ==
    [kind |-> "none", exc |-> "", returncode |-> 0, jobid |-> 0,
     stderr |-> "", stdout |-> "", vals |-> NoValues]

Returned(vals) == [NoOutcome EXCEPT !.kind = "returned", !.vals = vals]

Raised(exc) == [NoOutcome EXCEPT !.kind = "raised", !.exc = exc]

\* An error of a non-zero exit code that names the exit code only (not what
\* the code raises).
NonZeroExitErrorBare(j) ==
    [NoOutcome EXCEPT !.kind = "raised", !.exc = "RuntimeError",
                      !.returncode = j.returncode]

\* The RuntimeError of a non-zero exit code: the message holds the slurm
\* jobid, the exit code, stderr.decode() and stdout.decode().
NonZeroExitError(j) ==
    [NoOutcome EXCEPT !.kind = "raised", !.exc = "RuntimeError",
                      !.returncode = j.returncode, !.jobid = j.jobid,
                      !.stderr = Decode(j.stderr), !.stdout = Decode(j.stdout)]

\* The finally clause: release the semaphore if there is one.
Release(log) == IF slurmMaxJob # 0 THEN Append(log, "release") ELSE log

ReleasedValue == IF slurmMaxJob # 0 THEN slurmAvail + 1 ELSE slurmAvail

Count(log, event) == Cardinality({ i \in 1..Len(log) : log[i] = event })

Has(log, event) == \E i \in 1..Len(log) : log[i] = event

\* The call holds the SLURM_MAX_JOB semaphore.
HoldsPermit(c) == Count(rlog[c], "acquire") > Count(rlog[c], "release")

\* The files at a path and extension.
FilesAt(path, ext) == { f \in results : f.path = path /\ f.ext = ext }

RemoteIdle ==
    /\ slurmMaxJob = 0
    /\ slurmAvail = 0
    /\ loadResultsFunc = "None"
    /\ rpc = [c \in Calls |-> "idle"]
    /\ rtraj = [c \in Calls |-> NoTraj]
    /\ rlog = [c \in Calls |-> <<>>]
    /\ rout = [c \in Calls |-> NoOutcome]
    /\ job = [c \in Calls |-> NoJob]
    /\ nextJobId = 1
    /\ scripts = [p \in ScriptPaths |-> NoFile]
    /\ results = {}


---------------------------------------------------------------------------
(* PyTrajectoryFunctionWrapper.get_values_for_trajectory: state and        *)
(* helpers.                                                                *)

\* Number of concurrent get_values_for_trajectory calls of the local
\* wrapper.
NumLocalCalls == 2

LocalCalls == 1..NumLocalCalls

\* Largest capacity of the MAX_PROCESS semaphore.
MaxProcess == 2

\* A pool thread: state "none", "executing", "finished" or "raised", and
\* what it was given to run: "partial" is functools.partial(self.function,
\* **self._call_kwargs), "function" is self.function itself.
NoWorker == [state |-> "none", runs |-> "", kwargs |-> <<>>]

\* Lines 210-213: bind the call_kwargs, if there are any.
BoundFunction(call_kwargs) ==
    IF Len(call_kwargs) > 0
    THEN [state |-> "executing", runs |-> "partial", kwargs |-> call_kwargs]
    ELSE [state |-> "executing", runs |-> "function", kwargs |-> <<>>]

\* The call holds the MAX_PROCESS semaphore.
HoldsProcess(c) == Count(llog[c], "acquire") > Count(llog[c], "release")

LocalIdle ==
    /\ maxProcess = 1
    /\ procAvail = 1
    /\ localKwargs = <<>>
    /\ lpc = [c \in LocalCalls |-> "idle"]
    /\ worker = [c \in LocalCalls |-> NoWorker]
    /\ llog = [c \in LocalCalls |-> <<>>]
    /\ lout = [c \in LocalCalls |-> NoOutcome]
    /\ loopBlocked = 0
    /\ lclock = 0
    /\ lstart = [c \in LocalCalls |-> 0]
    /\ lend = [c \in LocalCalls |-> 0]

---------------------------------------------------------------------------
(* TrajectoryConcatenator.concatenate (src/asyncmd/trajectory/convert.py): *)
(* state and helpers.                                                      *)

\* Largest number of input trajectories.
MaxTrajs == 2

\* Largest number of frames of an input trajectory.
MaxFrames == 2

\* Largest integration time of a frame.
MaxTime == 1

\* A frame: its integration time ts.data["time"] and the sign of its
\* velocities.
Frames == [time : 0..MaxTime, vel : {1}]

\* The trajectories a Universe can hold: sequences of frames.
FrameSeqs == UNION { [1..n -> Frames] : n \in 1..MaxFrames }

\* The values of start and stop: <<>> is None, <<k>> the integer k.
SliceInputs ==
    { [start |-> <<>>, stop |-> <<>>, step |-> 1],
      [start |-> <<>>, stop |-> <<>>, step |-> -1],
      [start |-> <<1>>, stop |-> <<>>, step |-> 1],
      [start |-> <<0>>, stop |-> <<0>>, step |-> 1] }

\* range(a, b, step) as a sequence.
RECURSIVE Range(_, _, _)
Range(a, b, step) ==
    IF (step > 0 /\ a >= b) \/ (step < 0 /\ a <= b) THEN <<>>
    ELSE <<a>> \o Range(a + step, b, step)

\* slice(start, stop, step).indices(n): None takes the default of the
\* direction, a negative value counts from the end, and the value is
\* clipped to the trajectory.
SliceBound(v, n, step, default) ==
    LET lo == IF step > 0 THEN 0 ELSE -1
        hi == IF step > 0 THEN n ELSE n - 1
    IN  IF v = <<>> THEN default
        ELSE IF v[1] < 0 THEN (IF v[1] + n < lo THEN lo ELSE v[1] + n)
        ELSE (IF v[1] > hi THEN hi ELSE v[1])

\* The frames of u.trajectory[start:stop:step], in the order of the
\* iteration (frame index i is the element i + 1 of the sequence).
SlicedFrames(frames, sl) ==
    LET n == Len(frames)
        a == SliceBound(sl.start, n, sl.step, IF sl.step > 0 THEN 0 ELSE n - 1)
        b == SliceBound(sl.stop, n, sl.step, IF sl.step > 0 THEN n ELSE -1)
        idx == Range(a, b, sl.step)
    IN  [i \in 1..Len(idx) |-> frames[idx[i] + 1]]

\* A file of frames at tra_out, or no file.
NoTraOut == [exists |-> FALSE, frames |-> <<>>]

TraOutFile(frames) == [exists |-> TRUE, frames |-> frames]

\* last_time_seen before its first assignment.
Unbound == [bound |-> FALSE, time |-> 0]

Bound(t) == [bound |-> TRUE, time |-> t]

ConcatIdle ==
    /\ invert_v_for_negative_step = TRUE
    /\ trajs = <<>>
    /\ slices = <<>>
    /\ overwrite = FALSE
    /\ remove_double_frames = TRUE
    /\ struct_isfile = TRUE
    /\ tra_out_before = NoTraOut
    /\ tra_out = NoTraOut
    /\ last_time_seen = Unbound
    /\ cpc = "idle"
    /\ cpos = [traj |-> 0, frame |-> 0]
    /\ cread = 0
    /\ cout = "none"

---------------------------------------------------------------------------
(* SpecDerive: _get_id_str applied to two inputs A and B.                  *)

DeriveContents(kind) ==
    IF kind = "local" THEN { PyStr(s) : s \in Sources } ELSE ExeBytes

GetIdStrOf(kind, content, call_kwargs) ==
    IF kind = "local" THEN PyGetIdStr(content, call_kwargs)
    ELSE SlurmGetIdStr(content, call_kwargs)

DeriveIdle ==
    /\ dKind = "local"
    /\ dContentA = None /\ dContentB = None
    /\ dKwA = <<>> /\ dKwB = <<>>
    /\ dIdA = None /\ dIdB = None

InitDerive ==
    /\ ConcatIdle
    /\ WrapperIdle
    /\ RemoteIdle
    /\ LocalIdle
    /\ dKind \in {"local", "remote"}
    /\ dContentA \in DeriveContents(dKind)
    /\ dContentB \in DeriveContents(dKind)
    /\ dKwA \in Dicts
    /\ dKwB \in Dicts
    /\ dIdA = None
    /\ dIdB = None

DeriveA ==
    /\ dIdA = None
    /\ dIdA' = GetIdStrOf(dKind, dContentA, dKwA)
    /\ UNCHANGED <<dKind, dContentA, dContentB, dKwA, dKwB, dIdB>>
    /\ UNCHANGED <<wrapperVars, remoteVars, localVars, concatVars>>

DeriveB ==
    /\ dIdB = None
    /\ dIdB' = GetIdStrOf(dKind, dContentB, dKwB)
    /\ UNCHANGED <<dKind, dContentA, dContentB, dKwA, dKwB, dIdA>>
    /\ UNCHANGED <<wrapperVars, remoteVars, localVars, concatVars>>

NextDerive == DeriveA \/ DeriveB

SpecDerive == InitDerive /\ [][NextDerive]_vars

\* Both ids are derived.
BothDerived == dIdA # None /\ dIdB # None

\* C3: with the same content and the same set of (key, value) pairs, in
\* whatever insertion order, the local and the remote derivation give the
\* same id string.
IdOrderIndependent ==
    (BothDerived /\ dContentA = dContentB /\ Items(dKwA) = Items(dKwB))
        => dIdA = dIdB

\* C3 witness: two dicts with the same two items inserted in different
\* orders got the same id.
IdOrderIndependentWitness ==
    /\ BothDerived
    /\ dContentA = dContentB
    /\ Len(dKwA) = 2
    /\ dKwA # dKwB
    /\ Items(dKwA) = Items(dKwB)
    /\ dIdA = dIdB

\* B is A with the value of exactly one key changed.
OneValueChanged ==
    /\ DictKeys(dKwA) = DictKeys(dKwB)
    /\ Cardinality(Items(dKwA) \ Items(dKwB)) = 1

\* C4: changing the value of exactly one kwarg, or only the content, gives a
\* different id string.
ChangeChangesId ==
    (BothDerived /\ ( (dContentA = dContentB /\ OneValueChanged)
                      \/ (dContentA # dContentB /\ Items(dKwA) = Items(dKwB)) ))
        => dIdA # dIdB

\* The items of a dict as texts: (str(k), str(v)).
TextItems(d) == { <<Str(d[i][1]), Str(d[i][2])>> : i \in 1..Len(d) }

\* C25: with the same content, two dicts that differ as mappings (already
\* in the texts of their keys and values) get different id strings; digests
\* of different texts are different and sums do not collide by chance.
MappingsDifferIdsDiffer ==
    (BothDerived /\ dContentA = dContentB
                 /\ TextItems(dKwA) # TextItems(dKwB))
        => dIdA # dIdB

---------------------------------------------------------------------------
(* SpecWrapper: one wrapper is constructed, reconfigured through its       *)
(* property setters and called.                                            *)

InitWrapper ==
    DeriveIdle /\ WrapperIdle /\ RemoteIdle /\ LocalIdle /\ ConcatIdle

ConstructPy ==
    /\ self.kind = "none"
    /\ \E function \in Functions, call_kwargs \in KwargsInputs :
          LET r == PyInit(function, call_kwargs)
          IN  self' = r.obj /\ raised' = r.raised
    /\ applied' = NotApplied
    /\ UNCHANGED <<deriveVars, remoteVars, localVars, concatVars>>

ConstructSlurm ==
    /\ self.kind = "none"
    /\ \E executable \in ExePaths, call_kwargs \in KwargsInputs :
          LET r == SlurmInit(executable, call_kwargs)
          IN  self' = r.obj /\ raised' = r.raised
    /\ applied' = NotApplied
    /\ UNCHANGED <<deriveVars, remoteVars, localVars, concatVars>>

\* wrapper.call_kwargs = value
AssignCallKwargs(value) ==
    /\ self.kind # "none"
    /\ LET r == CallKwargsSetter(self, value)
       IN  self' = r.obj /\ raised' = r.raised
    /\ applied' = NotApplied
    /\ UNCHANGED <<deriveVars, remoteVars, localVars, concatVars>>

SetCallKwargs == \E value \in KwargsInputs : AssignCallKwargs(value)

SetFunction ==
    /\ self.kind = "local"
    /\ \E value \in Functions :
          LET r == FunctionSetter(self, value)
          IN  self' = r.obj /\ raised' = r.raised
    /\ applied' = NotApplied
    /\ UNCHANGED <<deriveVars, remoteVars, localVars, concatVars>>

SetExecutable ==
    /\ self.kind = "remote"
    /\ \E val \in ExePaths :
          LET r == ExecutableSetter(self, val)
          IN  self' = r.obj /\ raised' = r.raised
    /\ applied' = NotApplied
    /\ UNCHANGED <<deriveVars, remoteVars, localVars, concatVars>>

SetSlurmJobname ==
    /\ self.kind = "remote"
    /\ \E val \in {None, PyStr("myjob")} :
          self' = [self EXCEPT !.slurm_jobname = val]
    /\ raised' = "none"
    /\ applied' = NotApplied
    /\ UNCHANGED <<deriveVars, remoteVars, localVars, concatVars>>

Call ==
    /\ self.kind # "none"
    /\ \E is_trajectory \in BOOLEAN :
          applied' = IF self.kind = "local" THEN PyCall(self, is_trajectory)
                     ELSE BaseCall(self, is_trajectory)
    /\ raised' = IF applied'.outcome = "TypeError" THEN "TypeError" ELSE "none"
    /\ UNCHANGED self
    /\ UNCHANGED <<deriveVars, remoteVars, localVars, concatVars>>

NextWrapper ==
    \/ ConstructPy
    \/ ConstructSlurm
    \/ SetCallKwargs
    \/ SetFunction
    \/ SetExecutable
    \/ SetSlurmJobname
    \/ Call

SpecWrapper == InitWrapper /\ [][NextWrapper]_vars

\* C1: a call on a trajectory with a wrapper (local or remote) whose id is
\* None raises and does not run the wrapped computation; a call is delegated
\* to the trajectory only with a defined id, passing that id and the wrapper.
UndefinedIdIsRefused ==
    /\ (applied.outcome # "none" /\ applied.on_trajectory
            /\ applied.self_id = None)
          => applied.outcome = "TypeError"
    /\ applied.outcome = "delegated"
          => /\ applied.self_id # None
             /\ applied.passed_id = applied.self_id
             /\ applied.passed_self = self

\* The source text of the wrapped callable cannot be retrieved.
SourceUnavailable == self.func # NoFunction /\ self.func.err # "none"

\* C2: a local wrapper whose callable has no retrievable source has no id,
\* after construction and after any call_kwargs assignments.
NoSourceNoId ==
    (self.kind = "local" /\ SourceUnavailable) => self.id = None

\* C15: assigning call_kwargs something that is no dict raises TypeError and
\* changes no attribute of the wrapper (the stored kwargs and the id stay as
\* they were); assigning a dict stores it and sets the id to the one derived
\* with the new kwargs, with nothing raised.
CallKwargsAssignment ==
    [][ \A value \in KwargsInputs :
          AssignCallKwargs(value)
             => IF IsInstanceDict(value)
                THEN /\ raised' = "none"
                     /\ self'.call_kwargs = value[2]
                     /\ self'.id = GetIdStr(self')
                     /\ [self' EXCEPT !.call_kwargs = self.call_kwargs,
                                      !.id = self.id] = self
                ELSE /\ raised' = "TypeError"
                     /\ self' = self
      ]_vars

\* C15 witness: a remote wrapper with kwargs and an id on which the latest
\* operation was a call_kwargs assignment that raised TypeError.
CallKwargsAssignmentWitness ==
    /\ self.kind = "remote"
    /\ raised = "TypeError"
    /\ applied = NotApplied
    /\ Len(self.call_kwargs) = 2
    /\ self.id = GetIdStr(self)

\* The content the id of a wrapper is derived from: the source of its
\* current callable (None if it has no retrievable source), or the bytes of
\* its current executable.
CurrentContent(obj) ==
    IF obj.kind = "local"
    THEN IF obj.func.err = "none" THEN PyStr(obj.func.src) ELSE None
    ELSE ReadExecutable(obj.executable)

\* C16: after any sequence of assignments to function, executable and
\* call_kwargs, an id that is not None is the id derived from the current
\* callable or executable and the current kwargs.
IdIsCurrent ==
    (self.kind # "none" /\ self.id # None)
        => self.id = GetIdStrOf(self.kind, CurrentContent(self),
                                self.call_kwargs)

\* C19: a remote wrapper without custom slurm_jobname has, after any
\* assignments to executable and call_kwargs, the jobname "CVfunc_id_"
\* followed by the id of its current executable and kwargs (no trajectory
\* enters it); with a custom slurm_jobname the jobname is that name.
JobnameFollowsId ==
    self.kind = "remote"
        => IF self.slurm_jobname = None
           THEN SlurmJobname(self)
                  = <<"CVfunc_id_",
                      SlurmGetIdStr(ReadExecutable(self.executable),
                                    self.call_kwargs)>>
           ELSE SlurmJobname(self) = self.slurm_jobname

\* C19 witness: a remote wrapper without custom jobname whose executable is
\* exeB and whose kwargs have two items, right after an executable
\* assignment was refused; its jobname carries its id.
JobnameFollowsIdWitness ==
    /\ self.kind = "remote"
    /\ self.slurm_jobname = None
    /\ raised = "ValueError"
    /\ self.executable = "exeB"
    /\ Len(self.call_kwargs) = 2
    /\ SlurmJobname(self) = <<"CVfunc_id_", self.id>>

\* C23: whatever a __call__ of a local wrapper is given and whatever the
\* wrapper's id is, __call__ never runs the wrapped callable itself: the
\* callable is only reached through get_values_for_trajectory.
NeverRunDirectly ==
    self.kind = "local" => applied.outcome # "direct"

---------------------------------------------------------------------------
(* SpecAliasing: SpecWrapper with a caller that also mutates dict objects  *)
(* it shares with the wrapper.                                             *)

\* d = wrapper.call_kwargs; d[k] = v: the getter has returned
\* self._call_kwargs.copy(), the wrapper's own dict is not touched.
MutateGetterCopy ==
    /\ self.kind # "none"
    /\ raised' = "none"
    /\ applied' = NotApplied
    /\ UNCHANGED self
    /\ UNCHANGED <<deriveVars, remoteVars, localVars, concatVars>>

\* The caller mutates the dict object it has passed to __init__ or assigned
\* to call_kwargs: the setter has stored that object itself (line 79), so
\* self._call_kwargs is the mutated dict; no setter runs.
MutatePassedDict ==
    /\ self.kind # "none"
    /\ \E d \in Dicts :
          /\ d # self.call_kwargs
          /\ self' = [self EXCEPT !.call_kwargs = d]
    /\ raised' = "none"
    /\ applied' = NotApplied
    /\ UNCHANGED <<deriveVars, remoteVars, localVars, concatVars>>

NextAliasing ==
    \/ NextWrapper
    \/ MutateGetterCopy
    \/ MutatePassedDict

SpecAliasing == InitWrapper /\ [][NextAliasing]_vars

\* C24: the kwargs a constructed wrapper uses never change without its id
\* being the one derived with the new kwargs, whatever the caller does with
\* dicts it got from the getter or passed to the wrapper.
KwargsChangeRecomputesId ==
    [][ (self.kind # "none" /\ self'.call_kwargs # self.call_kwargs)
           => self'.id = GetIdStr(self')
      ]_vars

---------------------------------------------------------------------------
(* SpecRemote: concurrent get_values_for_trajectory calls of one remote    *)
(* wrapper, the batch jobs they submit and their cancellation. An action   *)
(* is what a call does between two suspension points.                      *)

InitRemote ==
    /\ ConcatIdle
    /\ DeriveIdle
    /\ WrapperIdle
    /\ LocalIdle
    /\ slurmMaxJob \in 0..MaxSlurmJobs
    /\ slurmAvail = slurmMaxJob
    /\ loadResultsFunc \in {"None", "custom"}
    /\ rpc = [c \in Calls |-> "idle"]
    /\ rtraj = [c \in Calls |-> NoTraj]
    /\ rlog = [c \in Calls |-> <<>>]
    /\ rout = [c \in Calls |-> NoOutcome]
    /\ job = [c \in Calls |-> NoJob]
    /\ nextJobId = 1
    /\ scripts = [p \in ScriptPaths |-> NoFile]
    /\ results = {}

\* The trajectories other calls are working on: concurrent calls are made
\* with different trajectories.
BusyTrajs(c) ==
    { rtraj[d] : d \in { e \in Calls \ {c} : rpc[e] \notin {"idle", "done"} } }

\* An end of the call that leaves the semaphore as it is (not what the code
\* does).
FinishKeepsPermit(c, log, outcome) ==
    /\ rpc' = [rpc EXCEPT ![c] = "done"]
    /\ rlog' = [rlog EXCEPT ![c] = log]
    /\ rout' = [rout EXCEPT ![c] = outcome]
    /\ UNCHANGED slurmAvail

\* The call ends: the finally clause releases the semaphore, then the value
\* or the exception reaches the caller.
Finish(c, log, outcome) ==
    /\ rpc' = [rpc EXCEPT ![c] = "done"]
    /\ rlog' = [rlog EXCEPT ![c] = Release(log)]
    /\ rout' = [rout EXCEPT ![c] = outcome]
    /\ slurmAvail' = ReleasedValue

\* Lines 409-450: build the paths and the script, write the script, then
\* wait for the semaphore, or without semaphore call
\* create_slurmprocess_submit. Writing the file may raise.
RStart(c) ==
    /\ rpc[c] = "idle"
    /\ \E traj \in Trajs \ BusyTrajs(c), writable \in BOOLEAN :
          /\ rtraj' = [rtraj EXCEPT ![c] = traj]
          /\ IF ~writable
             THEN /\ rpc' = [rpc EXCEPT ![c] = "done"]
                  /\ rout' = [rout EXCEPT ![c] = Raised("OSError")]
                  /\ UNCHANGED <<rlog, scripts>>
             ELSE /\ scripts' = [scripts EXCEPT ![SbatchFname(traj)] = traj]
                  /\ rpc' = [rpc EXCEPT ![c] =
                               IF slurmMaxJob = 0 THEN "submitting"
                               ELSE "wait_permit"]
                  /\ rlog' = [rlog EXCEPT ![c] =
                               IF slurmMaxJob = 0
                               THEN <<"write_script", "submit">>
                               ELSE <<"write_script">>]
                  /\ UNCHANGED rout
    /\ UNCHANGED <<slurmMaxJob, slurmAvail, loadResultsFunc, job, nextJobId,
                   results>>
    /\ UNCHANGED <<deriveVars, wrapperVars, localVars, concatVars>>

\* Line 450: acquire() returns; line 452: create_slurmprocess_submit is
\* called and awaited.
RAcquire(c) ==
    /\ rpc[c] = "wait_permit"
    /\ slurmAvail > 0
    /\ slurmAvail' = slurmAvail - 1
    /\ rpc' = [rpc EXCEPT ![c] = "submitting"]
    /\ rlog' = [rlog EXCEPT ![c] = rlog[c] \o <<"acquire", "submit">>]
    /\ UNCHANGED <<slurmMaxJob, loadResultsFunc, rtraj, rout, job, nextJobId,
                   scripts, results>>
    /\ UNCHANGED <<deriveVars, wrapperVars, localVars, concatVars>>

\* A cancellation in acquire() that runs into the finally clause, as if the
\* acquire were inside the try (not what the code does).
RCancelWaitPermitReleases(c) ==
    /\ rpc[c] = "wait_permit"
    /\ Finish(c, rlog[c] \o <<"cancelled", "reraise">>,
              Raised("CancelledError"))
    /\ UNCHANGED <<slurmMaxJob, loadResultsFunc, rtraj, job, nextJobId,
                   scripts, results>>
    /\ UNCHANGED <<deriveVars, wrapperVars, localVars, concatVars>>

\* The call is cancelled while it waits in acquire() (line 450, outside the
\* try): the CancelledError leaves the call, nothing was acquired.
RCancelWaitPermit(c) ==
    /\ rpc[c] = "wait_permit"
    /\ rpc' = [rpc EXCEPT ![c] = "done"]
    /\ rlog' = [rlog EXCEPT ![c] = rlog[c] \o <<"cancelled", "reraise">>]
    /\ rout' = [rout EXCEPT ![c] = Raised("CancelledError")]
    /\ UNCHANGED <<slurmMaxJob, slurmAvail, loadResultsFunc, rtraj, job,
                   nextJobId, scripts, results>>
    /\ UNCHANGED <<deriveVars, wrapperVars, localVars, concatVars>>

\* The queueing system accepts the script while create_slurmprocess_submit
\* is awaited: the job runs what the script file holds at that moment.
SbatchAccepts(c) ==
    /\ rpc[c] = "submitting"
    /\ job[c].state = "none"
    /\ scripts[SbatchFname(rtraj[c])] # NoFile
    /\ job' = [job EXCEPT ![c] =
                 [NoJob EXCEPT !.state = "running", !.jobid = nextJobId,
                               !.script = scripts[SbatchFname(rtraj[c])]]]
    /\ nextJobId' = nextJobId + 1
    /\ UNCHANGED <<slurmMaxJob, slurmAvail, loadResultsFunc, rpc, rtraj, rlog,
                   rout, scripts, results>>
    /\ UNCHANGED <<deriveVars, wrapperVars, localVars, concatVars>>

\* Lines 452-463: create_slurmprocess_submit returns the handle slurm_proc,
\* slurm_proc.communicate() is awaited.
SubmitReturns(c) ==
    /\ rpc[c] = "submitting"
    /\ job[c].state \in {"running", "ended"}
    /\ rpc' = [rpc EXCEPT ![c] = "awaiting"]
    /\ rlog' = [rlog EXCEPT ![c] = Append(rlog[c], "handle")]
    /\ UNCHANGED <<slurmMaxJob, slurmAvail, loadResultsFunc, rtraj, rout, job,
                   nextJobId, scripts, results>>
    /\ UNCHANGED <<deriveVars, wrapperVars, localVars, concatVars>>

\* A failed submission that leaves the call without running the finally
\* clause (not what the code does).
SubmitRaisesKeepsPermit(c) ==
    /\ rpc[c] = "submitting"
    /\ job[c].state = "none"
    /\ rpc' = [rpc EXCEPT ![c] = "done"]
    /\ rout' = [rout EXCEPT ![c] = Raised("SubmissionError")]
    /\ UNCHANGED <<slurmMaxJob, slurmAvail, loadResultsFunc, rtraj, rlog, job,
                   nextJobId, scripts, results>>
    /\ UNCHANGED <<deriveVars, wrapperVars, localVars, concatVars>>

\* create_slurmprocess_submit raises (the submission failed): no except
\* clause matches, the finally clause runs.
SubmitRaises(c) ==
    /\ rpc[c] = "submitting"
    /\ job[c].state = "none"
    /\ Finish(c, rlog[c], Raised("SubmissionError"))
    /\ UNCHANGED <<slurmMaxJob, loadResultsFunc, rtraj, job, nextJobId,
                   scripts, results>>
    /\ UNCHANGED <<deriveVars, wrapperVars, localVars, concatVars>>

\* The call is cancelled while create_slurmprocess_submit is awaited (line
\* 452): the except clause calls slurm_proc.kill(), but slurm_proc is not
\* bound yet, which raises UnboundLocalError; the finally clause runs. A job
\* the queueing system has accepted stays as it is.
RCancelSubmit(c) ==
    /\ rpc[c] = "submitting"
    /\ Finish(c, Append(rlog[c], "cancelled"), Raised("UnboundLocalError"))
    /\ UNCHANGED <<slurmMaxJob, loadResultsFunc, rtraj, job, nextJobId,
                   scripts, results>>
    /\ UNCHANGED <<deriveVars, wrapperVars, localVars, concatVars>>

\* The job ends on the cluster with a return code and output; the
\* executable has written the values of the trajectory named in its script
\* to a file, or nothing.
JobEnds(c) ==
    /\ job[c].state = "running"
    /\ \E end \in JobEndings :
          /\ job' = [job EXCEPT ![c] =
                       [@ EXCEPT !.state = "ended",
                                 !.returncode = end.returncode,
                                 !.stdout = end.stdout,
                                 !.stderr = end.stderr]]
          /\ results' =
                IF end.ext = "nothing" THEN results
                ELSE (results \ FilesAt(ResultFile(job[c].script), end.ext))
                     \cup {[path |-> ResultFile(job[c].script),
                            ext |-> end.ext,
                            vals |-> ValuesOf(job[c].script)]}
    /\ UNCHANGED <<slurmMaxJob, slurmAvail, loadResultsFunc, rpc, rtraj, rlog,
                   rout, nextJobId, scripts>>
    /\ UNCHANGED <<deriveVars, wrapperVars, localVars, concatVars>>

\* Lines 479-489 without load_results_func: np.load(result_file + ".npy")
\* and os.remove of that file.
LoadNpy(c, log) ==
    LET found == FilesAt(ResultFile(rtraj[c]), ".npy")
    IN  IF found = {}
        THEN /\ Finish(c, Append(log, "np_load"), Raised("FileNotFoundError"))
             /\ UNCHANGED results
        ELSE /\ Finish(c, log \o <<"np_load", "rm_result">>,
                       Returned((CHOOSE f \in found : TRUE).vals))
             /\ results' = results \ found

\* Lines 486-489 with load_results_func: the function is called with
\* result_file; it loads a file the job has written and may delete it, or
\* raises. Then os.remove(result_file).
LoadCustom(c, log) ==
    \E ext \in {"", ".npy"}, deletes \in BOOLEAN :
       LET found == FilesAt(ResultFile(rtraj[c]), ext)
           kept == IF deletes THEN results \ found ELSE results
           plain == { f \in kept : f.path = ResultFile(rtraj[c]) /\ f.ext = "" }
       IN  IF found = {}
           THEN /\ Finish(c, Append(log, "load_results_func"),
                          Raised("LoadError"))
                /\ UNCHANGED results
           ELSE IF plain = {}
           THEN /\ Finish(c, log \o <<"load_results_func", "rm_result">>,
                          Raised("FileNotFoundError"))
                /\ results' = kept
           ELSE /\ Finish(c, log \o <<"load_results_func", "rm_result">>,
                          Returned((CHOOSE f \in found : TRUE).vals))
                /\ results' = kept \ plain

\* Lines 463-492 after communicate() has returned: the return code is
\* checked, the script is removed and the result is loaded.
CommunicateReturns(c) ==
    /\ rpc[c] = "awaiting"
    /\ job[c].state = "ended"
    /\ LET log == Append(rlog[c], "communicate")
           sbatch_fname == SbatchFname(rtraj[c])
       IN  IF job[c].returncode # 0
           THEN /\ Finish(c, log, NonZeroExitError(job[c]))
                /\ UNCHANGED <<scripts, results>>
           ELSE IF scripts[sbatch_fname] = NoFile
           THEN /\ Finish(c, Append(log, "rm_script"),
                          Raised("FileNotFoundError"))
                /\ UNCHANGED <<scripts, results>>
           ELSE /\ scripts' = [scripts EXCEPT ![sbatch_fname] = NoFile]
                /\ IF loadResultsFunc = "None"
                   THEN LoadNpy(c, Append(log, "rm_script"))
                   ELSE LoadCustom(c, Append(log, "rm_script"))
    /\ UNCHANGED <<slurmMaxJob, loadResultsFunc, rtraj, job, nextJobId>>
    /\ UNCHANGED <<deriveVars, wrapperVars, localVars, concatVars>>

\* slurm_proc.kill(): a job that still runs is terminated.
Kill(j) == IF j.state = "running" THEN [j EXCEPT !.state = "killed"] ELSE j

\* A cancellation in communicate() without except clause: the job is not
\* killed (not what the code does).
RCancelAwaitingNoKill(c) ==
    /\ rpc[c] = "awaiting"
    /\ Finish(c, rlog[c] \o <<"cancelled", "reraise">>,
              Raised("CancelledError"))
    /\ UNCHANGED <<slurmMaxJob, loadResultsFunc, rtraj, job, nextJobId,
                   scripts, results>>
    /\ UNCHANGED <<deriveVars, wrapperVars, localVars, concatVars>>

\* The call is cancelled while slurm_proc.communicate() is awaited (line
\* 463): the except clause kills the job and reraises, the finally clause
\* runs.
RCancelAwaiting(c) ==
    /\ rpc[c] = "awaiting"
    /\ job' = [job EXCEPT ![c] = Kill(job[c])]
    /\ Finish(c, rlog[c] \o <<"cancelled", "kill", "reraise">>,
              Raised("CancelledError"))
    /\ UNCHANGED <<slurmMaxJob, loadResultsFunc, rtraj, nextJobId, scripts,
                   results>>
    /\ UNCHANGED <<deriveVars, wrapperVars, localVars, concatVars>>

NextRemote ==
    \E c \in Calls :
        \/ RStart(c)
        \/ RAcquire(c)
        \/ RCancelWaitPermit(c)
        \/ SbatchAccepts(c)
        \/ SubmitReturns(c)
        \/ SubmitRaises(c)
        \/ RCancelSubmit(c)
        \/ JobEnds(c)
        \/ CommunicateReturns(c)
        \/ RCancelAwaiting(c)

SpecRemote == InitRemote /\ [][NextRemote]_vars

\* a occurs in the log before b.
Before(log, a, b) ==
    \E i, j \in 1..Len(log) : i < j /\ log[i] = a /\ log[j] = b

\* The call was cancelled while it awaited slurm_proc.communicate().
CancelledInCommunicate(c) ==
    Has(rlog[c], "handle") /\ Has(rlog[c], "cancelled")

\* C5: a call cancelled while it awaits its submitted job has called the
\* handle's kill() before the cancellation reaches the caller (the job no
\* longer runs), and the caller then gets the CancelledError.
CancelKillsJobFirst ==
    \A c \in Calls :
        CancelledInCommunicate(c)
            => /\ rpc[c] = "done"
               /\ rout[c] = Raised("CancelledError")
               /\ Before(rlog[c], "kill", "reraise")
               /\ Before(rlog[c], "cancelled", "kill")
               /\ job[c].state # "running"

\* C5 witness: a call with a running job was cancelled in communicate(),
\* the job was killed and the call raised CancelledError.
CancelKillsJobFirstWitness ==
    \E c \in Calls :
        /\ CancelledInCommunicate(c)
        /\ job[c].state = "killed"
        /\ rout[c].exc = "CancelledError"

\* C6: however a call ends, it has released the SLURM_MAX_JOB semaphore as
\* often as it acquired it; the value never exceeds the capacity and is back
\* at the capacity once all calls have ended.
PermitBalanced ==
    /\ slurmAvail >= 0
    /\ slurmAvail <= slurmMaxJob
    /\ slurmMaxJob # 0
          => slurmAvail
               = slurmMaxJob - Cardinality({ c \in Calls : HoldsPermit(c) })
    /\ \A c \in Calls :
          /\ Count(rlog[c], "release") <= Count(rlog[c], "acquire")
          /\ rpc[c] = "done"
                => Count(rlog[c], "release") = Count(rlog[c], "acquire")
    /\ (\A c \in Calls : rpc[c] = "done") => slurmAvail = slurmMaxJob

\* C6 witness: with a semaphore of capacity 1 all calls have ended, one by
\* the error of a non-zero exit code after it held the semaphore, one
\* cancelled while it waited for the semaphore.
PermitBalancedWitness ==
    /\ slurmMaxJob = 1
    /\ \A c \in Calls : rpc[c] = "done"
    /\ \E c \in Calls :
          /\ rout[c].exc = "RuntimeError"
          /\ Count(rlog[c], "release") = 1
    /\ \E c \in Calls :
          /\ rout[c].exc = "CancelledError"
          /\ ~Has(rlog[c], "acquire")

\* C7: with a SLURM_MAX_JOB semaphore of capacity N, a job that is submitted
\* and has not terminated belongs to a call that holds the semaphore, so at
\* most N such jobs exist.
RunningJobsHoldPermit ==
    slurmMaxJob # 0
        => /\ \A c \in Calls : job[c].state = "running" => HoldsPermit(c)
           /\ Cardinality({ c \in Calls : job[c].state = "running" })
                 <= slurmMaxJob

\* The call got a non-zero return code from communicate().
SawNonZeroExit(c) ==
    /\ rpc[c] = "done"
    /\ Has(rlog[c], "communicate")
    /\ job[c].returncode # 0

FailureKeepsScript ==
    [][ \A c \in Calls :
          /\ (rpc[c] # "done" /\ rpc'[c] = "done"
                  /\ rout'[c].exc = "RuntimeError")
                => /\ scripts'[SbatchFname(rtraj[c])] # NoFile
                   /\ results' = results
                   /\ ~Has(rlog'[c], "np_load")
                   /\ ~Has(rlog'[c], "load_results_func")
                   /\ ~Has(rlog'[c], "rm_result")
          /\ Has(rlog'[c], "rm_script")
                => (Has(rlog'[c], "communicate") /\ job'[c].returncode = 0)
      ]_vars

\* C11: a call that has written its script and has ended (returned, failed
\* or cancelled) holds no semaphore and has attempted to remove its script
\* file; the removal of a result file was attempted only by calls that
\* returned.
TerminalCleansUp ==
    \A c \in Calls :
        (rpc[c] = "done" /\ Has(rlog[c], "write_script"))
            => /\ ~HoldsPermit(c)
               /\ Has(rlog[c], "rm_script")
               /\ Has(rlog[c], "rm_result") => rout[c].kind = "returned"

\* The call resumes from communicate() with exit code 0, without
\* load_results_func, and result_file + ".npy" exists.
ZeroExitWithNpy(c) ==
    /\ rpc[c] = "awaiting"
    /\ job[c].state = "ended"
    /\ job[c].returncode = 0
    /\ loadResultsFunc = "None"
    /\ FilesAt(ResultFile(rtraj[c]), ".npy") # {}

\* C12: a call without load_results_func whose job exited with 0 returns the
\* array stored in result_file + ".npy"; after the call neither its script
\* file nor that result file exists.
ZeroExitReturnsArray ==
    [][ \A c \in Calls :
          (ZeroExitWithNpy(c) /\ rpc'[c] = "done"
                /\ Has(rlog'[c], "communicate"))
             => /\ rout'[c].kind = "returned"
                /\ \E f \in FilesAt(ResultFile(rtraj[c]), ".npy") :
                      rout'[c].vals = f.vals
                /\ scripts'[SbatchFname(rtraj[c])] = NoFile
                /\ { f \in results' : f.path = ResultFile(rtraj[c])
                                       /\ f.ext = ".npy" } = {}
      ]_vars

\* The call has ended after load_results_func returned a value.
LoaderReturned(c) ==
    /\ rpc[c] = "done"
    /\ loadResultsFunc = "custom"
    /\ Has(rlog[c], "load_results_func")
    /\ rout[c].exc # "LoadError"

\* C13: with load_results_func and exit code 0 the call returns what the
\* function returned for result_file; the call itself attempts no removal of
\* a result file, so it returns whether or not a file exists at result_file.
CustomLoaderOwnsDeletion ==
    \A c \in Calls :
        LoaderReturned(c)
            => /\ rout[c].kind = "returned"
               /\ ~Has(rlog[c], "rm_result")

\* The call ended because writing the script or the submission failed.
SubmissionFailed(c) ==
    /\ rpc[c] = "done"
    /\ rout[c].exc \in {"OSError", "SubmissionError"}

\* C14: a call whose script could not be written or whose submission failed
\* raises that error without a job handle and without awaiting a job, and has
\* released the semaphore as often as it acquired it: its net effect on the
\* semaphore's value is zero.
SubmissionErrorsSurface ==
    /\ \A c \in Calls :
          SubmissionFailed(c)
             => /\ rout[c].kind = "raised"
                /\ ~Has(rlog[c], "handle")
                /\ ~Has(rlog[c], "communicate")
                /\ job[c].state = "none"
                /\ ~HoldsPermit(c)
                /\ rout[c].exc = "OSError" => ~Has(rlog[c], "acquire")
    /\ (slurmMaxJob # 0 /\ \A c \in Calls : rpc[c] \in {"idle", "done"})
          => slurmAvail = slurmMaxJob

\* C14 witness: with a semaphore one call has acquired it and failed in the
\* submission, another failed to write its script; both have ended.
SubmissionErrorsSurfaceWitness ==
    /\ slurmMaxJob = 1
    /\ slurmAvail = 1
    /\ \E c \in Calls :
          /\ rout[c].exc = "SubmissionError"
          /\ Count(rlog[c], "acquire") = 1
          /\ Count(rlog[c], "release") = 1
    /\ \E c \in Calls : rpc[c] = "done" /\ rout[c].exc = "OSError"

\* C18: two calls of the wrapper on trajectories with the same first file
\* and different hashes use different result files.
ResultFilesDistinct ==
    \A c, d \in Calls :
        (c # d /\ rtraj[c] # NoTraj /\ rtraj[d] # NoTraj
              /\ rtraj[c].name = rtraj[d].name
              /\ rtraj[c].hash # rtraj[d].hash)
            => ResultFile(rtraj[c]) # ResultFile(rtraj[d])

\* The call has written its script and has not ended.
InFlight(c) == rpc[c] \in {"wait_permit", "submitting", "awaiting"}

\* C21: while a call is in flight, no step of another call overwrites or
\* removes the script file it has written, whatever trajectories the calls
\* of the wrapper work on.
ScriptsNotShared ==
    [][ \A c \in Calls :
          (InFlight(c) /\ rpc'[c] = rpc[c] /\ rlog'[c] = rlog[c])
             => scripts'[SbatchFname(rtraj[c])] = scripts[SbatchFname(rtraj[c])]
      ]_vars

\* The call was cancelled after it had entered the try (the semaphore, if
\* there is one, acquired) and has ended.
CancelledAfterAcquire(c) ==
    /\ rpc[c] = "done"
    /\ Has(rlog[c], "submit")
    /\ Has(rlog[c], "cancelled")

\* C22: a call cancelled after it acquired the semaphore, be it in
\* create_slurmprocess_submit or in communicate(), raises CancelledError to
\* its caller and leaves no job of its own running.
CancelAlwaysCancels ==
    \A c \in Calls :
        CancelledAfterAcquire(c)
            => /\ rout[c] = Raised("CancelledError")
               /\ job[c].state # "running"

---------------------------------------------------------------------------
(* SpecLocal: concurrent get_values_for_trajectory calls of one local      *)
(* wrapper on one event loop; the wrapped callable runs on pool threads.   *)

InitLocal ==
    /\ ConcatIdle
    /\ DeriveIdle
    /\ WrapperIdle
    /\ RemoteIdle
    /\ maxProcess \in 1..MaxProcess
    /\ procAvail = maxProcess
    /\ localKwargs \in {<<>>, <<<<PyStr("a"), PyInt("1")>>>>}
    /\ lpc = [c \in LocalCalls |-> "idle"]
    /\ worker = [c \in LocalCalls |-> NoWorker]
    /\ llog = [c \in LocalCalls |-> <<>>]
    /\ lout = [c \in LocalCalls |-> NoOutcome]
    /\ loopBlocked = 0
    /\ lclock = 0
    /\ lstart = [c \in LocalCalls |-> 0]
    /\ lend = [c \in LocalCalls |-> 0]

\* Lines 207-208: the call starts and enters "async with" of the semaphore.
LStart(c) ==
    /\ loopBlocked = 0
    /\ lpc[c] = "idle"
    /\ lpc' = [lpc EXCEPT ![c] = "wait_permit"]
    /\ UNCHANGED <<maxProcess, procAvail, localKwargs, worker, llog, lout,
                   loopBlocked, lclock, lstart, lend>>
    /\ UNCHANGED <<deriveVars, wrapperVars, remoteVars, concatVars>>

\* Running the callable without waiting for the semaphore (not what the
\* code does).
LAcquireUnguarded(c) ==
    /\ loopBlocked = 0
    /\ lpc[c] = "wait_permit"
    /\ procAvail' = procAvail - 1
    /\ lpc' = [lpc EXCEPT ![c] = "running"]
    /\ worker' = [worker EXCEPT ![c] = BoundFunction(localKwargs)]
    /\ llog' = [llog EXCEPT ![c] = <<"acquire", "run_in_executor">>]
    /\ lclock' = lclock + 1
    /\ lstart' = [lstart EXCEPT ![c] = lclock + 1]
    /\ UNCHANGED <<maxProcess, localKwargs, lout, loopBlocked, lend>>
    /\ UNCHANGED <<deriveVars, wrapperVars, remoteVars, concatVars>>

\* Lines 208-230: the semaphore is acquired, the callable is bound, the
\* pool with one thread is made and run_in_executor hands the callable to
\* its thread; the call awaits the result.
LAcquire(c) ==
    /\ loopBlocked = 0
    /\ lpc[c] = "wait_permit"
    /\ procAvail > 0
    /\ procAvail' = procAvail - 1
    /\ lpc' = [lpc EXCEPT ![c] = "running"]
    /\ worker' = [worker EXCEPT ![c] = BoundFunction(localKwargs)]
    /\ llog' = [llog EXCEPT ![c] = <<"acquire", "run_in_executor">>]
    /\ lclock' = lclock + 1
    /\ lstart' = [lstart EXCEPT ![c] = lclock + 1]
    /\ UNCHANGED <<maxProcess, localKwargs, lout, loopBlocked, lend>>
    /\ UNCHANGED <<deriveVars, wrapperVars, remoteVars, concatVars>>

\* The call is cancelled while it waits for the semaphore: nothing was
\* acquired, the CancelledError leaves the call.
LCancelWaitPermit(c) ==
    /\ loopBlocked = 0
    /\ lpc[c] = "wait_permit"
    /\ lpc' = [lpc EXCEPT ![c] = "done"]
    /\ llog' = [llog EXCEPT ![c] = <<"cancelled">>]
    /\ lout' = [lout EXCEPT ![c] = Raised("CancelledError")]
    /\ UNCHANGED <<maxProcess, procAvail, localKwargs, worker, loopBlocked,
                   lclock, lstart, lend>>
    /\ UNCHANGED <<deriveVars, wrapperVars, remoteVars, concatVars>>

\* The callable returns or raises on its pool thread.
WorkerEnds(c) ==
    /\ worker[c].state = "executing"
    /\ \E state \in {"finished", "raised"} :
          worker' = [worker EXCEPT ![c].state = state]
    /\ lclock' = lclock + 1
    /\ lend' = [lend EXCEPT ![c] = lclock + 1]
    /\ UNCHANGED <<maxProcess, procAvail, localKwargs, lpc, llog, lout,
                   loopBlocked, lstart>>
    /\ UNCHANGED <<deriveVars, wrapperVars, remoteVars, concatVars>>

\* A resumption that returns values whatever the callable did (not what
\* the code does).
LResumeSwallows(c) ==
    /\ loopBlocked = 0
    /\ lpc[c] = "running"
    /\ worker[c].state \in {"finished", "raised"}
    /\ lpc' = [lpc EXCEPT ![c] = "done"]
    /\ procAvail' = procAvail + 1
    /\ llog' = [llog EXCEPT ![c] = llog[c] \o <<"shutdown", "release">>]
    /\ lout' = [lout EXCEPT ![c] = Returned(<<"values", NoTraj>>)]
    /\ UNCHANGED <<maxProcess, localKwargs, worker, loopBlocked, lclock,
                   lstart, lend>>
    /\ UNCHANGED <<deriveVars, wrapperVars, remoteVars, concatVars>>

\* Lines 230-231: the awaited future is done; the pool is shut down, the
\* semaphore released, and the values are returned or the callable's
\* exception is raised.
LResume(c) ==
    /\ loopBlocked = 0
    /\ lpc[c] = "running"
    /\ worker[c].state \in {"finished", "raised"}
    /\ lpc' = [lpc EXCEPT ![c] = "done"]
    /\ procAvail' = procAvail + 1
    /\ llog' = [llog EXCEPT ![c] = llog[c] \o <<"shutdown", "release">>]
    /\ lout' = [lout EXCEPT ![c] =
                  IF worker[c].state = "finished"
                  THEN Returned(<<"values", NoTraj>>)
                  ELSE Raised("FunctionError")]
    /\ UNCHANGED <<maxProcess, localKwargs, worker, loopBlocked, lclock,
                   lstart, lend>>
    /\ UNCHANGED <<deriveVars, wrapperVars, remoteVars, concatVars>>

\* The call is cancelled while it awaits run_in_executor (line 230): the
\* CancelledError leaves the "with" of the pool, whose __exit__ is
\* shutdown(wait=True): the event loop thread waits for the pool thread.
LCancelRunning(c) ==
    /\ loopBlocked = 0
    /\ lpc[c] = "running"
    /\ IF worker[c].state = "executing"
       THEN /\ lpc' = [lpc EXCEPT ![c] = "shutdown"]
            /\ loopBlocked' = c
            /\ llog' = [llog EXCEPT ![c] = llog[c] \o <<"cancelled", "shutdown">>]
            /\ UNCHANGED <<procAvail, lout>>
       ELSE /\ lpc' = [lpc EXCEPT ![c] = "done"]
            /\ procAvail' = procAvail + 1
            /\ llog' = [llog EXCEPT ![c] =
                          llog[c] \o <<"cancelled", "shutdown", "release">>]
            /\ lout' = [lout EXCEPT ![c] = Raised("CancelledError")]
            /\ UNCHANGED loopBlocked
    /\ UNCHANGED <<maxProcess, localKwargs, worker, lclock, lstart, lend>>
    /\ UNCHANGED <<deriveVars, wrapperVars, remoteVars, concatVars>>

\* shutdown(wait=True) returns, the pool thread has ended: the semaphore is
\* released and the CancelledError reaches the caller.
LShutdownReturns(c) ==
    /\ loopBlocked = c
    /\ lpc[c] = "shutdown"
    /\ worker[c].state # "executing"
    /\ lpc' = [lpc EXCEPT ![c] = "done"]
    /\ loopBlocked' = 0
    /\ procAvail' = procAvail + 1
    /\ llog' = [llog EXCEPT ![c] = Append(llog[c], "release")]
    /\ lout' = [lout EXCEPT ![c] = Raised("CancelledError")]
    /\ UNCHANGED <<maxProcess, localKwargs, worker, lclock, lstart, lend>>
    /\ UNCHANGED <<deriveVars, wrapperVars, remoteVars, concatVars>>

NextLocal ==
    \E c \in LocalCalls :
        \/ LStart(c)
        \/ LAcquire(c)
        \/ LCancelWaitPermit(c)
        \/ WorkerEnds(c)
        \/ LResume(c)
        \/ LCancelRunning(c)
        \/ LShutdownReturns(c)

SpecLocal == InitLocal /\ [][NextLocal]_vars

\* The calls whose callable is executing on a pool thread.
Executing == { c \in LocalCalls : worker[c].state = "executing" }

\* C8: with a MAX_PROCESS semaphore of capacity N at most N wrapped
\* callables execute at any time, each for a call that holds the semaphore;
\* with capacity 1 a callable starts only after every callable started
\* before it has ended.
ExecutingWithinCapacity ==
    /\ Cardinality(Executing) <= maxProcess
    /\ \A c \in Executing : HoldsProcess(c)
    /\ maxProcess = 1
          => \A c, d \in LocalCalls :
                (lstart[d] > 0 /\ lstart[c] > lstart[d])
                    => (lend[d] > 0 /\ lend[d] < lstart[c])

\* C8 witness: with capacity 1 both calls were started together; the
\* callable of one has ended and only then the callable of the other
\* started, which is executing now.
ExecutingWithinCapacityWitness ==
    /\ maxProcess = 1
    /\ \E c, d \in LocalCalls :
          /\ lstart[d] > 0 /\ lend[d] > 0
          /\ lstart[c] > lend[d]
          /\ worker[c].state = "executing"

\* The callable of the call has raised and the call, not cancelled, has
\* ended.
CallableRaised(c) ==
    /\ lpc[c] = "done"
    /\ worker[c].state = "raised"
    /\ ~Has(llog[c], "cancelled")

LoopNeverBlocked ==
    /\ loopBlocked = 0
    /\ \A c \in LocalCalls : lpc[c] = "shutdown" => worker[c].state # "executing"

---------------------------------------------------------------------------
(* SpecFair: the calls of one backend, local or remote, on an event loop   *)
(* that runs every coroutine that can proceed, with fair semaphores, pool  *)
(* threads and batch jobs that terminate and submissions that complete.    *)

\* Remote calls start with a semaphore that two calls saturate.
InitFair ==
    \/ InitLocal
    \/ InitRemote /\ slurmMaxJob = 1 /\ loadResultsFunc = "None"

\* The trajectories of the remote calls: two with the same first file.
FairTrajs == { t \in Trajs : t.name = "a.trr" /\ t.hash[6] = 6 }

\* The calls of one backend run; the other backend stays idle.
NextFair ==
    \/ /\ LocalIdle
       /\ NextRemote
       /\ \A c \in Calls : rtraj'[c] \in FairTrajs \cup {NoTraj}
    \/ RemoteIdle /\ NextLocal

\* What the event loop, the semaphore and the queueing system guarantee to a
\* remote call.
FairRemote(c) ==
    /\ SF_vars(RAcquire(c))
    /\ WF_vars(SbatchAccepts(c) \/ SubmitRaises(c))
    /\ WF_vars(SubmitReturns(c))
    /\ WF_vars(JobEnds(c))
    /\ WF_vars(CommunicateReturns(c))

\* What the event loop, the semaphore and the pool thread guarantee to a
\* local call.
FairLocal(c) ==
    /\ SF_vars(LAcquire(c))
    /\ WF_vars(WorkerEnds(c))
    /\ WF_vars(LResume(c))
    /\ WF_vars(LShutdownReturns(c))

SpecFair ==
    /\ InitFair
    /\ [][NextFair]_vars
    /\ \A c \in Calls : FairRemote(c)
    /\ \A c \in LocalCalls : FairLocal(c)

---------------------------------------------------------------------------
(* SpecConcat: one call of TrajectoryConcatenator.concatenate, frame by    *)
(* frame.                                                                  *)

InitConcat ==
    /\ DeriveIdle
    /\ WrapperIdle
    /\ RemoteIdle
    /\ LocalIdle
    /\ invert_v_for_negative_step \in BOOLEAN
    /\ \E n \in 1..MaxTrajs :
          /\ trajs \in [1..n -> FrameSeqs]
          /\ slices \in [1..n -> SliceInputs]
    /\ overwrite \in BOOLEAN
    /\ remove_double_frames \in BOOLEAN
    /\ struct_isfile \in BOOLEAN
    /\ tra_out_before \in {NoTraOut, TraOutFile(<<[time |-> 0, vel |-> 1]>>)}
    /\ tra_out = tra_out_before
    /\ last_time_seen = Unbound
    /\ cpc = "idle"
    /\ cpos = [traj |-> 0, frame |-> 0]
    /\ cread = 0
    /\ cout = "none"

\* A concatenate that opens the writer before it looks at overwrite (not
\* what the code does).
ConcatenateOpensFirst ==
    /\ cpc = "idle"
    /\ tra_out' = TraOutFile(<<>>)
    /\ IF (tra_out.exists /\ ~overwrite) \/ ~struct_isfile
       THEN /\ cpc' = "done"
            /\ cout' = "ValueError"
            /\ UNCHANGED cpos
       ELSE /\ cpc' = "writing"
            /\ cpos' = [traj |-> 1, frame |-> 1]
            /\ UNCHANGED cout
    /\ UNCHANGED <<invert_v_for_negative_step, trajs, slices, overwrite,
                   remove_double_frames, struct_isfile, tra_out_before,
                   last_time_seen, cread>>
    /\ UNCHANGED <<deriveVars, wrapperVars, remoteVars, localVars>>

\* Lines 101-118: the checks of tra_out and struct_out, then the Universe
\* of the first trajectory and the Writer, which opens tra_out for writing.
Concatenate ==
    /\ cpc = "idle"
    /\ IF (tra_out.exists /\ ~overwrite) \/ ~struct_isfile
       THEN /\ cpc' = "done"
            /\ cout' = "ValueError"
            /\ UNCHANGED <<tra_out, cpos>>
       ELSE /\ cpc' = "writing"
            /\ tra_out' = TraOutFile(<<>>)
            /\ cpos' = [traj |-> 1, frame |-> 1]
            /\ UNCHANGED cout
    /\ UNCHANGED <<invert_v_for_negative_step, trajs, slices, overwrite,
                   remove_double_frames, struct_isfile, tra_out_before,
                   last_time_seen, cread>>
    /\ UNCHANGED <<deriveVars, wrapperVars, remoteVars, localVars>>

\* The frames the loop over the current trajectory iterates.
CurrentFrames == SlicedFrames(trajs[cpos.traj], slices[cpos.traj])

\* W.write(u.atoms) of a frame, its velocities inverted for a negative step.
Written(ts) ==
    IF invert_v_for_negative_step /\ slices[cpos.traj].step < 0
    THEN [ts EXCEPT !.vel = -ts.vel]
    ELSE ts

\* Lines 119-125 and 131-141: one iteration of the loop over the frames of
\* the current trajectory.
NextFrame ==
    /\ cpc = "writing"
    /\ cpos.frame <= Len(CurrentFrames)
    /\ LET ts == CurrentFrames[cpos.frame]
           first == cpos.traj = 1
       IN  /\ cread' = cread + 1
           /\ IF ~first /\ remove_double_frames /\ ~last_time_seen.bound
              THEN /\ cpc' = "done"
                   /\ cout' = "UnboundLocalError"
                   /\ UNCHANGED <<tra_out, last_time_seen, cpos>>
              ELSE IF ~first /\ remove_double_frames
                        /\ last_time_seen.time = ts.time
              THEN /\ cpos' = [cpos EXCEPT !.frame = @ + 1]
                   /\ UNCHANGED <<tra_out, last_time_seen, cpc, cout>>
              ELSE /\ tra_out' = TraOutFile(Append(tra_out.frames, Written(ts)))
                   /\ last_time_seen' = IF remove_double_frames
                                        THEN Bound(ts.time)
                                        ELSE last_time_seen
                   /\ cpos' = [cpos EXCEPT !.frame = @ + 1]
                   /\ UNCHANGED <<cpc, cout>>
    /\ UNCHANGED <<invert_v_for_negative_step, trajs, slices, overwrite,
                   remove_double_frames, struct_isfile, tra_out_before>>
    /\ UNCHANGED <<deriveVars, wrapperVars, remoteVars, localVars>>

\* Lines 126-144: the loop over a trajectory is exhausted; the next
\* trajectory is opened, or the writer is closed and the Trajectory returned.
NextTrajectory ==
    /\ cpc = "writing"
    /\ cpos.frame > Len(CurrentFrames)
    /\ IF cpos.traj < Len(trajs)
       THEN /\ cpos' = [traj |-> cpos.traj + 1, frame |-> 1]
            /\ UNCHANGED <<cpc, cout>>
       ELSE /\ cpc' = "done"
            /\ cout' = "returned"
            /\ UNCHANGED cpos
    /\ UNCHANGED <<invert_v_for_negative_step, trajs, slices, overwrite,
                   remove_double_frames, struct_isfile, tra_out_before,
                   tra_out, last_time_seen, cread>>
    /\ UNCHANGED <<deriveVars, wrapperVars, remoteVars, localVars>>

NextConcat ==
    \/ Concatenate
    \/ NextFrame
    \/ NextTrajectory

SpecConcat == InitConcat /\ [][NextConcat]_vars

\* C20: concatenate with an existing tra_out and overwrite=False raises
\* ValueError before the writer is opened: the file at tra_out is what it
\* was, no frame was read and the call never gets to writing.
ExistingOutputRefused ==
    (cpc # "idle" /\ tra_out_before.exists /\ ~overwrite)
        => /\ cpc = "done"
           /\ cout = "ValueError"
           /\ tra_out = tra_out_before
           /\ cread = 0
           /\ last_time_seen = Unbound

\* C20 witness: with an accessible structure file, a call on an existing
\* tra_out that holds a frame has ended with ValueError.
ExistingOutputRefusedWitness ==
    /\ cpc = "done"
    /\ cout = "ValueError"
    /\ struct_isfile
    /\ ~overwrite
    /\ tra_out_before.exists
    /\ tra_out.frames # <<>>

\* C28: with remove_double_frames the frames concatenate has written to
\* tra_out never hold two consecutive frames with the same time.
NoDoubleFrames ==
    (cpc # "idle" /\ remove_double_frames)
        => \A i \in 1..(Len(tra_out.frames) - 1) :
              tra_out.frames[i].time # tra_out.frames[i + 1].time

===========================================================================
